---------------------------- MODULE Spec2Model ----------------------------
(***************************************************************************)
(* A model of ulab's poly module (code/poly.c): polyval (Horner            *)
(* evaluation), polyfit (least squares through the normal equations) and   *)
(* interp (piecewise-linear interpolation with clamping).                  *)
(*                                                                         *)
(* Each function is a state machine of its own: SpecInterp, SpecEval and   *)
(* SpecFit run one call each, from every input of a bounded set, one       *)
(* action per statement or loop iteration of the C code.                   *)
(*                                                                         *)
(* Real numbers are exact rationals [n |-> numerator, d |-> denominator];  *)
(* a zero denominator stands for the non-finite result of a division by    *)
(* zero.  Rounding is not modelled.                                        *)
(***************************************************************************)
EXTENDS Integers, Sequences, FiniteSets, TLC

VARIABLES
    \* ---- poly_interp ----
    x,          \* the query array: [m, n, items]
    xp,         \* the knots: [m, n, items]
    fp,         \* the values at the knots: [m, n, items]
    left,       \* args[3]: None or <<number>>
    right,      \* args[4]: None or <<number>>
    ipc,        \* position in poly_interp
    i,          \* loop index over x
    x_value,    \* the query point of the current iteration
    left_index, \* binary search, lower index
    right_index,\* binary search, upper index
    yarray,     \* the results written so far
    \* ---- poly_polyval ----
    o_p,        \* the coefficients given, highest degree first
    o_x,        \* the points given
    epc,        \* position in poly_polyval
    plen,       \* uint8_t plen
    p,          \* what the copy loop wrote from the address of p on
    p_overrun,  \* how many of these writes fell behind the plen items of p
    p_oobread,  \* whether p was read behind its plen items
    pv_i,       \* uint16_t i
    pv_j,       \* uint8_t j
    pv_x,       \* mp_float_t x
    pv_y,       \* mp_float_t y
    outf,       \* the items of the result array
    \* ---- poly_polyfit ----
    n_args,     \* 2: (y, degree); 3: (x, y, degree)
    len0,       \* the length of args[0]
    len1,       \* the length of args[1] when n_args = 3
    degree,     \* the degree given
    lenx,       \* uint16_t lenx
    leny,       \* uint16_t leny
    deg,        \* uint8_t deg
    fpc,        \* position in poly_polyfit
    err,        \* the message of the ValueError raised, "" for none
    pf_i,       \* the loop counter i of the loop under way
    pf_j,       \* the loop counter j of the loop under way
    buf,        \* x, y, XT, prod: [st, size, frees]
    acc,        \* the buffer accesses of the last step: [buf, lo, hi]
    betav,      \* the items of the result array beta
    col_iters,  \* history: bodies of the column loop started (stops at leny + 1)
    row_iters   \* history: bodies of the row loop run in this column (stops at deg + 1)

interpVars == <<x, xp, fp, left, right, ipc, i, x_value, left_index,
                right_index, yarray>>

evalVars == <<o_p, o_x, epc, plen, p, p_overrun, p_oobread, pv_i, pv_j,
              pv_x, pv_y, outf>>

fitVars == <<n_args, len0, len1, degree, lenx, leny, deg, fpc, err, pf_i,
             pf_j, buf, acc, betav, col_iters, row_iters>>

vars == <<interpVars, evalVars, fitVars>>

\* mp_const_none for an optional argument; a supplied number v is <<v>>
None == <<>>

-----------------------------------------------------------------------------
(* Bounds of the input sets.                                               *)

\* longest xp / fp array given to interp
MaxN == 4

\* most coefficients and most points of a short call of polyval
MaxCoef == 3
MaxPts == 2

\* most samples and highest degree of a small call of polyfit
MaxSamples == 3
MaxDeg == 3

-----------------------------------------------------------------------------
(* Exact rational arithmetic standing for mp_float_t.                      *)

Abs(a) == IF a < 0 THEN -a ELSE a

Sign(a) == IF a < 0 THEN -1 ELSE IF a > 0 THEN 1 ELSE 0

RECURSIVE GCD(_, _)
GCD(a, b) == IF b = 0 THEN a ELSE GCD(b, a % b)

\* num/den in lowest terms with a positive denominator; den = 0 gives the
\* non-finite value of that sign (0: NaN).
Rat(num, den) ==
    IF den = 0 THEN [n |-> Sign(num), d |-> 0]
    ELSE LET g == GCD(Abs(num), Abs(den))
             s == Sign(den)
         IN  [n |-> (s * num) \div g, d |-> (s * den) \div g]

Num(a) == [n |-> a, d |-> 1]

-----------------------------------------------------------------------------
(* Integer widths of the C code.                                           *)

\* uint8_t holds 0 .. U8 - 1
U8 == 256

\* uint16_t holds 0 .. U16 - 1
U16 == 65536

-----------------------------------------------------------------------------
(* poly_polyval                                                            *)

notInterpVars == <<evalVars, fitVars>>
notEvalVars == <<interpVars, fitVars>>
notFitVars == <<interpVars, evalVars>>

\* no call of poly_polyval is under way
EvalIdle ==
    /\ o_p = <<>>
    /\ o_x = <<>>
    /\ epc = "idle"
    /\ plen = 0
    /\ p = <<>>
    /\ p_overrun = 0
    /\ p_oobread = FALSE
    /\ pv_i = 0
    /\ pv_j = 0
    /\ pv_x = 0
    /\ pv_y = 0
    /\ outf = <<>>

\* The coefficients and the points are small integers.
CVals == {-1, 0, 2}
PVals == {-2, 0, 1, 3}

\* What a read of memory nobody wrote may give.
Garbage == {0, 9}

\* Short calls: every coefficient sequence of up to MaxCoef items (the empty
\* one too) at every sequence of up to MaxPts points.
ShortEval ==
    /\ \E n \in 0 .. MaxCoef : o_p \in [1 .. n -> CVals]
    /\ \E n \in 0 .. MaxPts : o_x \in [1 .. n -> PVals]

\* Long calls: U8 - 1, U8 and U8 + 1 coefficients, at points whose powers
\* stay small.
LongEval ==
    /\ \E n \in {U8 - 1, U8, U8 + 1} :
          o_p \in {[k \in 1 .. n |-> 1], [k \in 1 .. n |-> IF k = 1 THEN 2 ELSE 0]}
    /\ o_x \in {<<1>>, <<-1, 1>>}

EvalInit ==
    /\ ShortEval \/ LongEval
    /\ epc = "begin"
    /\ plen = 0
    /\ p = <<>>
    /\ p_overrun = 0
    /\ p_oobread = FALSE
    /\ pv_i = 0
    /\ pv_j = 0
    /\ pv_x = 0
    /\ pv_y = 0
    /\ outf = <<>>

\* line 57: the length of o_p, stored in a uint8_t
Plen(coefficients) == Len(coefficients) % U8

\* lines 36-65: the result array gets one item per point; p gets plen items
\* and the copy loop writes every coefficient, p[0], p[1], ..., in turn
EvalBegin ==
    /\ epc = "begin"
    /\ outf' = [k \in 1 .. Len(o_x) |-> 0]
    /\ plen' = Plen(o_p)
    /\ p' = o_p
    /\ p_overrun' = IF Len(o_p) > Plen(o_p) THEN Len(o_p) - Plen(o_p) ELSE 0
    /\ pv_i' = 0
    /\ epc' = "points"
    /\ UNCHANGED <<o_p, o_x, p_oobread, pv_j, pv_x, pv_y>>

\* line 68: y = p[0].  With plen = 0 the read is behind the buffer: it gives
\* what the copy loop wrote there, if it wrote, or anything else.
ReadP0 ==
    IF plen > 0 THEN {p[1]}
    ELSE Garbage \cup (IF Len(p) > 0 THEN {p[1]} ELSE {})

\* lines 66-68: the next point is taken
EvalPoint ==
    /\ epc = "points"
    /\ pv_i < Len(o_x)
    /\ pv_x' = o_x[pv_i + 1]
    /\ pv_y' \in ReadP0
    /\ p_oobread' = (p_oobread \/ plen = 0)
    /\ pv_j' = 0
    /\ epc' = "horner"
    /\ UNCHANGED <<o_p, o_x, plen, p, p_overrun, pv_i, outf>>

\* lines 69-72: one step of Horner's scheme; plen - 1 is an int, -1 for
\* plen = 0
EvalHorner ==
    /\ epc = "horner"
    /\ pv_j < plen - 1
    /\ pv_y' = pv_y * pv_x + p[pv_j + 2]
    /\ pv_j' = (pv_j + 1) % U8
    /\ UNCHANGED <<o_p, o_x, epc, plen, p, p_overrun, p_oobread, pv_i, pv_x,
                   outf>>

\* line 73: outf[i++] = y
EvalStore ==
    /\ epc = "horner"
    /\ ~(pv_j < plen - 1)
    /\ outf' = [outf EXCEPT ![pv_i + 1] = pv_y]
    /\ pv_i' = (pv_i + 1) % U16
    /\ epc' = "points"
    /\ UNCHANGED <<o_p, o_x, plen, p, p_overrun, p_oobread, pv_j, pv_x, pv_y>>

\* lines 66, 75-76: the points are used up; p is released, out returned
EvalReturn ==
    /\ epc = "points"
    /\ ~(pv_i < Len(o_x))
    /\ epc' = "done"
    /\ UNCHANGED <<o_p, o_x, plen, p, p_overrun, p_oobread, pv_i, pv_j, pv_x,
                   pv_y, outf>>

EvalNext ==
    \/ EvalBegin /\ UNCHANGED notEvalVars
    \/ EvalPoint /\ UNCHANGED notEvalVars
    \/ EvalHorner /\ UNCHANGED notEvalVars
    \/ EvalStore /\ UNCHANGED notEvalVars
    \/ EvalReturn /\ UNCHANGED notEvalVars

-----------------------------------------------------------------------------
(* poly_polyfit                                                            *)
(*                                                                         *)
(* No branch of poly_polyfit depends on a floating-point value: the only   *)
(* data-dependent outcome is the boolean of linalg_invert_matrix.  The     *)
(* model keeps the lengths, the counters, the buffers (state, size,        *)
(* accesses) and, for the result, which component of the solved vector     *)
(* each item of betav holds.                                               *)

Buffers == {"x", "y", "XT", "prod"}

\* a buffer before m_new
NoBuffer == [st |-> "none", size |-> 0, frees |-> 0]

\* no call of poly_polyfit is under way
FitIdle ==
    /\ n_args = 2
    /\ len0 = 0
    /\ len1 = 0
    /\ degree = 0
    /\ lenx = 0
    /\ leny = 0
    /\ deg = 0
    /\ fpc = "idle"
    /\ err = ""
    /\ pf_i = 0
    /\ pf_j = 0
    /\ buf = [b \in Buffers |-> NoBuffer]
    /\ acc = {}
    /\ betav = <<>>
    /\ col_iters = 0
    /\ row_iters = 0

\* The lengths and degrees given: the small ones, and the ones around the
\* widths of the counters.
LenVals == (0 .. MaxSamples) \cup {U8 - 1, U8, U16, U16 + 1}
DegVals == (0 .. MaxDeg) \cup {U8 - 2, U8 - 1, U8}

FitInit ==
    /\ n_args \in {2, 3}
    /\ len0 \in LenVals
    /\ len1 \in IF n_args = 3 THEN LenVals ELSE {0}
    /\ degree \in DegVals
    /\ lenx = 0
    /\ leny = 0
    /\ deg = 0
    /\ fpc = "check"
    /\ err = ""
    /\ pf_i = 0
    /\ pf_j = 0
    /\ buf = [b \in Buffers |-> NoBuffer]
    /\ acc = {}
    /\ betav = <<>>
    /\ col_iters = 0
    /\ row_iters = 0

\* m_new(mp_float_t, size)
New(bufs, b, size) ==
    [bufs EXCEPT ![b] = [st |-> "live", size |-> size, frees |-> @.frees]]

\* m_del(mp_float_t, b, ...)
Del(bufs, b) ==
    [bufs EXCEPT ![b] = [st |-> "freed", size |-> @.size, frees |-> @.frees + 1]]

\* the items lo .. hi of b are read or written (none when hi < lo)
Touch(b, lo, hi) == IF hi < lo THEN {} ELSE {[buf |-> b, lo |-> lo, hi |-> hi]}

\* lines 95, 111, 112: (uint16_t)mp_obj_get_int(mp_obj_len_maybe(...))
ToU16(v) == v % U16

\* lines 96, 116: (uint8_t)mp_obj_get_int(...)
ToU8(v) == v % U8

\* lines 97, 117
TooFewPoints(ly, d) == ly < d

\* lines 92-99: (y, degree)
FitCheck2 ==
    /\ fpc = "check"
    /\ n_args = 2
    /\ leny' = ToU16(len0)
    /\ deg' = ToU8(degree)
    /\ IF TooFewPoints(ToU16(len0), ToU8(degree))
       THEN /\ err' = "more degrees of freedom than data points"
            /\ fpc' = "raised"
       ELSE /\ fpc' = "fill"
            /\ UNCHANGED err
    /\ acc' = {}
    /\ UNCHANGED <<n_args, len0, len1, degree, lenx, pf_i, pf_j, buf, betav,
                   col_iters, row_iters>>

\* lines 107-119: (x, y, degree); deg is read after the lengths are compared
FitCheck3 ==
    /\ fpc = "check"
    /\ n_args = 3
    /\ lenx' = ToU16(len0)
    /\ leny' = ToU16(len1)
    /\ IF ToU16(len0) # ToU16(len1)
       THEN /\ err' = "input vectors must be of equal length"
            /\ fpc' = "raised"
            /\ UNCHANGED deg
       ELSE /\ deg' = ToU8(degree)
            /\ IF TooFewPoints(ToU16(len1), ToU8(degree))
               THEN /\ err' = "more degrees of freedom than data points"
                    /\ fpc' = "raised"
               ELSE /\ fpc' = "fill"
                    /\ UNCHANGED err
    /\ acc' = {}
    /\ UNCHANGED <<n_args, len0, len1, degree, pf_i, pf_j, buf, betav,
                   col_iters, row_iters>>

\* lines 100-106: x = 0, 1, ..., lenx - 1 and y from args[0]
\* (fill_array_iterable does the writes to y itself)
FitFill2 ==
    /\ fpc = "fill"
    /\ n_args = 2
    /\ lenx' = leny
    /\ buf' = New(New(buf, "x", leny), "y", leny)
    /\ acc' = Touch("x", 0, leny - 1)
    /\ fpc' = "xt"
    /\ UNCHANGED <<n_args, len0, len1, degree, leny, deg, err, pf_i, pf_j,
                   betav, col_iters, row_iters>>

\* lines 120-123: x from args[0], y from args[1]
FitFill3 ==
    /\ fpc = "fill"
    /\ n_args = 3
    /\ buf' = New(New(buf, "x", lenx), "y", leny)
    /\ acc' = {}
    /\ fpc' = "xt"
    /\ UNCHANGED <<n_args, len0, len1, degree, lenx, leny, deg, err, pf_i,
                   pf_j, betav, col_iters, row_iters>>

\* lines 128-129: XT gets (deg+1)*leny items; uint8_t i = 0
FitNewXT ==
    /\ fpc = "xt"
    /\ buf' = New(buf, "XT", (deg + 1) * leny)
    /\ acc' = {}
    /\ pf_i' = 0
    /\ pf_j' = 0
    /\ fpc' = "xt_col"
    /\ UNCHANGED <<n_args, len0, len1, degree, lenx, leny, deg, err, betav,
                   col_iters, row_iters>>

\* line 129: the test of the column loop, uint8_t i against uint16_t leny
ColumnLeft(ci, ly) == ci < ly

\* line 131: the test of the row loop, uint8_t j against the int deg + 1
RowLeft(rj, d) == rj < d + 1

\* lines 129-131: a column is begun: its top row is set; uint8_t j = 1
FitXTCol ==
    /\ fpc = "xt_col"
    /\ ColumnLeft(pf_i, leny)
    /\ acc' = Touch("XT", pf_i + 0 * lenx, pf_i + 0 * lenx)
    /\ pf_j' = 1
    /\ col_iters' = IF col_iters <= leny THEN col_iters + 1 ELSE col_iters
    /\ row_iters' = 0
    /\ fpc' = "xt_row"
    /\ UNCHANGED <<n_args, len0, len1, degree, lenx, leny, deg, err, pf_i,
                   buf, betav>>

\* lines 131-133: one row of the column; j - 1 is an int, -1 once j has
\* wrapped to 0; j++ wraps at U8
FitXTRow ==
    /\ fpc = "xt_row"
    /\ RowLeft(pf_j, deg)
    /\ acc' = Touch("XT", pf_i + pf_j * leny, pf_i + pf_j * leny)
              \cup Touch("XT", pf_i + (pf_j - 1) * leny, pf_i + (pf_j - 1) * leny)
              \cup Touch("x", pf_i, pf_i)
    /\ pf_j' = (pf_j + 1) % U8
    /\ row_iters' = IF row_iters <= deg THEN row_iters + 1 ELSE row_iters
    /\ UNCHANGED <<n_args, len0, len1, degree, lenx, leny, deg, fpc, err,
                   pf_i, buf, betav, col_iters>>

\* lines 129, 131: the rows of the column are done; i++ wraps at U8
FitXTColDone ==
    /\ fpc = "xt_row"
    /\ ~RowLeft(pf_j, deg)
    /\ pf_i' = (pf_i + 1) % U8
    /\ acc' = {}
    /\ fpc' = "xt_col"
    /\ UNCHANGED <<n_args, len0, len1, degree, lenx, leny, deg, err, pf_j,
                   buf, betav, col_iters, row_iters>>

\* lines 129, 136-138: the columns are done; prod gets (deg+1)*(deg+1) items
FitNewProd ==
    /\ fpc = "xt_col"
    /\ ~ColumnLeft(pf_i, leny)
    /\ buf' = New(buf, "prod", (deg + 1) * (deg + 1))
    /\ acc' = {}
    /\ pf_i' = 0
    /\ pf_j' = 0
    /\ fpc' = "prod"
    /\ UNCHANGED <<n_args, len0, len1, degree, lenx, leny, deg, err, betav,
                   col_iters, row_iters>>

\* lines 138-149: one entry of prod: the sum over k = 0 .. lenx-1, then the
\* store; i and j are uint16_t and stay below deg + 1 <= U8
FitProdEntry ==
    /\ fpc = "prod"
    /\ pf_i < deg + 1
    /\ acc' = Touch("XT", pf_j * lenx, pf_j * lenx + lenx - 1)
              \cup Touch("XT", pf_i * lenx, pf_i * lenx + lenx - 1)
              \cup Touch("prod", pf_j * (deg + 1) + pf_i, pf_j * (deg + 1) + pf_i)
    /\ IF pf_j + 1 < deg + 1
       THEN /\ pf_j' = pf_j + 1
            /\ UNCHANGED pf_i
       ELSE /\ pf_j' = 0
            /\ pf_i' = pf_i + 1
    /\ UNCHANGED <<n_args, len0, len1, degree, lenx, leny, deg, fpc, err,
                   buf, betav, col_iters, row_iters>>

\* lines 138, 150: prod is complete and handed to linalg_invert_matrix
FitProdDone ==
    /\ fpc = "prod"
    /\ ~(pf_i < deg + 1)
    /\ acc' = {}
    /\ fpc' = "invert"
    /\ UNCHANGED <<n_args, len0, len1, degree, lenx, leny, deg, err, pf_i,
                   pf_j, buf, betav, col_iters, row_iters>>

\* linalg_invert_matrix(prod, deg+1) works in place on the (deg+1)*(deg+1)
\* items of prod and returns whether it could invert the matrix
InvertMatrixAccesses(d) == Touch("prod", 0, (d + 1) * (d + 1) - 1)
InvertMatrixResults == BOOLEAN

\* lines 150, 160-162: the inverter is called; on false the call bails out
FitInvert ==
    /\ fpc = "invert"
    /\ acc' = InvertMatrixAccesses(deg)
    /\ \E inverted \in InvertMatrixResults :
          IF inverted
          THEN /\ pf_i' = 0
               /\ pf_j' = 0
               /\ fpc' = "xy"
          ELSE /\ fpc' = "singular"
               /\ UNCHANGED <<pf_i, pf_j>>
    /\ UNCHANGED <<n_args, len0, len1, degree, lenx, leny, deg, err, buf,
                   betav, col_iters, row_iters>>

\* lines 154-157
ReleaseAll_leaky(bufs) == Del(Del(Del(bufs, "XT"), "x"), "prod")
ReleaseAll(bufs) == Del(Del(Del(Del(bufs, "XT"), "x"), "y"), "prod")

\* lines 154-158: the four buffers are released, then ValueError is raised
FitBailOut ==
    /\ fpc = "singular"
    /\ buf' = ReleaseAll(buf)
    /\ acc' = {}
    /\ err' = "could not invert Vandermonde matrix"
    /\ fpc' = "raised"
    /\ UNCHANGED <<n_args, len0, len1, degree, lenx, leny, deg, pf_i, pf_j,
                   betav, col_iters, row_iters>>

\* lines 162-168: one item of X^T * y, stored in x[i]
FitXy ==
    /\ fpc = "xy"
    /\ pf_i < deg + 1
    /\ acc' = Touch("XT", pf_i * lenx, pf_i * lenx + lenx - 1)
              \cup Touch("y", 0, lenx - 1)
              \cup Touch("x", pf_i, pf_i)
    /\ pf_i' = pf_i + 1
    /\ UNCHANGED <<n_args, len0, len1, degree, lenx, leny, deg, fpc, err,
                   pf_j, buf, betav, col_iters, row_iters>>

\* the result array right after create_new_ndarray(deg+1, 1, ...): no item
\* holds a component yet
Unset == -1
NewBeta(d) == [k \in 1 .. d + 1 |-> Unset]

\* lines 162, 169-178: XT is released, beta created, y released
FitNewBeta ==
    /\ fpc = "xy"
    /\ ~(pf_i < deg + 1)
    /\ buf' = Del(Del(buf, "XT"), "y")
    /\ betav' = NewBeta(deg)
    /\ acc' = {}
    /\ pf_i' = 0
    /\ fpc' = "beta"
    /\ UNCHANGED <<n_args, len0, len1, degree, lenx, leny, deg, err, pf_j,
                   col_iters, row_iters>>

\* component c of the solved vector (X^T X)^(-1) X^T y, lowest degree first,
\* named by its index
Beta(c) == c

\* lines 178-184: betav[i] = row i of prod times x
FitBeta ==
    /\ fpc = "beta"
    /\ pf_i < deg + 1
    /\ acc' = Touch("prod", pf_i * (deg + 1), pf_i * (deg + 1) + deg)
              \cup Touch("x", 0, deg)
    /\ betav' = [betav EXCEPT ![pf_i + 1] = Beta(pf_i)]
    /\ pf_i' = pf_i + 1
    /\ UNCHANGED <<n_args, len0, len1, degree, lenx, leny, deg, fpc, err,
                   pf_j, buf, col_iters, row_iters>>

\* lines 178, 185-187: x and prod are released; uint8_t i = 0
FitReleaseRest ==
    /\ fpc = "beta"
    /\ ~(pf_i < deg + 1)
    /\ buf' = Del(Del(buf, "x"), "prod")
    /\ acc' = {}
    /\ pf_i' = 0
    /\ fpc' = "swap"
    /\ UNCHANGED <<n_args, len0, len1, degree, lenx, leny, deg, err, pf_j,
                   betav, col_iters, row_iters>>

\* line 187: the swap loop runs while i < (deg+1)/2
SwapBound_all(d) == d + 1
SwapBound(d) == (d + 1) \div 2

\* SWAP(mp_float_t, a[k], a[l]), k and l counted from 0
Swap(a, k, l) == [a EXCEPT ![k + 1] = a[l + 1], ![l + 1] = a[k + 1]]

\* lines 187-190: one exchange; i++ wraps at U8
FitSwap ==
    /\ fpc = "swap"
    /\ pf_i < SwapBound(deg)
    /\ betav' = Swap(betav, pf_i, deg - pf_i)
    /\ pf_i' = (pf_i + 1) % U8
    /\ acc' = {}
    /\ UNCHANGED <<n_args, len0, len1, degree, lenx, leny, deg, fpc, err,
                   pf_j, buf, col_iters, row_iters>>

\* lines 187, 191: beta is returned
FitReturn ==
    /\ fpc = "swap"
    /\ ~(pf_i < SwapBound(deg))
    /\ acc' = {}
    /\ fpc' = "done"
    /\ UNCHANGED <<n_args, len0, len1, degree, lenx, leny, deg, err, pf_i,
                   pf_j, buf, betav, col_iters, row_iters>>

FitNext ==
    \/ FitCheck2 /\ UNCHANGED notFitVars
    \/ FitCheck3 /\ UNCHANGED notFitVars
    \/ FitFill2 /\ UNCHANGED notFitVars
    \/ FitFill3 /\ UNCHANGED notFitVars
    \/ FitNewXT /\ UNCHANGED notFitVars
    \/ FitXTCol /\ UNCHANGED notFitVars
    \/ FitXTRow /\ UNCHANGED notFitVars
    \/ FitXTColDone /\ UNCHANGED notFitVars
    \/ FitNewProd /\ UNCHANGED notFitVars
    \/ FitProdEntry /\ UNCHANGED notFitVars
    \/ FitProdDone /\ UNCHANGED notFitVars
    \/ FitInvert /\ UNCHANGED notFitVars
    \/ FitBailOut /\ UNCHANGED notFitVars
    \/ FitXy /\ UNCHANGED notFitVars
    \/ FitNewBeta /\ UNCHANGED notFitVars
    \/ FitBeta /\ UNCHANGED notFitVars
    \/ FitReleaseRest /\ UNCHANGED notFitVars
    \/ FitSwap /\ UNCHANGED notFitVars
    \/ FitReturn /\ UNCHANGED notFitVars

-----------------------------------------------------------------------------
(* poly_interp                                                             *)

\* An ndarray: m rows, n columns, m*n items.
Row(items) == [m |-> 1, n |-> Len(items), items |-> items]
Col(items) == [m |-> Len(items), n |-> 1, items |-> items]
Mat(m, n, items) == [m |-> m, n |-> n, items |-> items]

ArrayLen(a) == Len(a.items)

\* ndarray_get_float_value(items, typecode, index), index counted from 0
GetFloat(a, index) == a.items[index + 1]

\* line 211-212: the condition under which interp raises ValueError
InterpRejects(xpa, fpa) ==
    \/ (xpa.m # 1 /\ xpa.n # 1)
    \/ (fpa.m # 1 /\ fpa.n # 1)
    \/ ArrayLen(xpa) < 2
    \/ ArrayLen(fpa) < 2
    \/ ArrayLen(xpa) # ArrayLen(fpa)

\* lines 217-218
XpLeft == GetFloat(xp, 0)
XpRight == GetFloat(xp, ArrayLen(xp) - 1)

\* lines 219-223
LeftValue == IF left = None THEN GetFloat(fp, 0) ELSE left[1]

\* lines 224-228
RightValue == IF right = None THEN GetFloat(fp, ArrayLen(fp) - 1) ELSE right[1]

\* line 232
ClampsLeft_strict(xv, xpl) == xv < xpl
ClampsLeft(xv, xpl) == xv <= xpl

\* line 234
ClampsRight(xv, xpr) == xv >= xpr

\* line 241
MiddleIndex(lo, hi) == lo + (hi - lo) \div 2

\* line 243
MovesRightIndex_strict(xv, xpm) == xv < xpm
MovesRightIndex(xv, xpm) == xv <= xpm

\* line 253
Interpolate_swapped(xv, xl, xr, fl, fr) ==
    Rat(fr * (xr - xl) + (xv - xl) * (fl - fr), xr - xl)
Interpolate(xv, xl, xr, fl, fr) ==
    Rat(fl * (xr - xl) + (xv - xl) * (fr - fl), xr - xl)

\* The knots and the query points are small integers.
XVals == 0 .. 4
QVals == -1 .. 5

\* The fp arrays of length n: three shapes whose values tell the positions
\* apart.
FpShapes(n) ==
    { [k \in 1 .. n |-> 3 * k], [k \in 1 .. n |-> 10 - 2 * k],
      [k \in 1 .. n |-> (k * k) % 5] }

\* left= and right=: absent, or a number no fp holds.
Overrides == {None, <<7>>}

\* Calls with xp and fp as rows of equal length n >= 2, xp any sequence of
\* knots (sorted or not); the query is xp itself, a single point or empty.
RowCall ==
    \E n \in 2 .. MaxN :
    \E s \in [1 .. n -> XVals] :
       /\ xp = Row(s)
       /\ fp \in {Row(f) : f \in FpShapes(n)}
       /\ x \in {Row(s), Row(<<>>)} \cup {Row(<<v>>) : v \in QVals}
       /\ left \in Overrides
       /\ right \in Overrides

\* Calls with other shapes and lengths: columns, which validation accepts,
\* and a matrix, a single knot and unequal lengths, which it rejects.
ShapeCall ==
    /\ x \in {Row(<<1>>), Col(<<0, 2>>)}
    /\ xp \in {Col(<<0, 1, 3>>), Row(<<0, 1, 3>>), Row(<<2>>),
               Mat(2, 2, <<0, 1, 2, 3>>)}
    /\ fp \in {Col(<<4, 8, 6>>), Row(<<5>>), Row(<<1, 2>>),
               Mat(2, 2, <<3, 6, 9, 12>>)}
    /\ left = None
    /\ right = None

InterpInit ==
    /\ RowCall \/ ShapeCall
    /\ ipc = "validate"
    /\ i = 0
    /\ x_value = 0
    /\ left_index = 0
    /\ right_index = 0
    /\ yarray = <<>>

\* lines 211-215: validation, then the result array is created
InterpValidate ==
    /\ ipc = "validate"
    /\ ipc' = IF InterpRejects(xp, fp) THEN "error" ELSE "loop"
    /\ UNCHANGED <<x, xp, fp, left, right, i, x_value, left_index,
                   right_index, yarray>>

\* lines 230-233: the next query point is at or below the first knot
InterpClampLeft ==
    /\ ipc = "loop"
    /\ i < ArrayLen(x)
    /\ ClampsLeft(GetFloat(x, i), XpLeft)
    /\ x_value' = GetFloat(x, i)
    /\ yarray' = Append(yarray, Num(LeftValue))
    /\ i' = i + 1
    /\ UNCHANGED <<x, xp, fp, left, right, ipc, left_index, right_index>>

\* lines 230-235: the next query point is at or above the last knot
InterpClampRight ==
    /\ ipc = "loop"
    /\ i < ArrayLen(x)
    /\ ~ClampsLeft(GetFloat(x, i), XpLeft)
    /\ ClampsRight(GetFloat(x, i), XpRight)
    /\ x_value' = GetFloat(x, i)
    /\ yarray' = Append(yarray, Num(RightValue))
    /\ i' = i + 1
    /\ UNCHANGED <<x, xp, fp, left, right, ipc, left_index, right_index>>

\* lines 236-239: the binary search starts over the whole of xp
InterpSearchBegin ==
    /\ ipc = "loop"
    /\ i < ArrayLen(x)
    /\ ~ClampsLeft(GetFloat(x, i), XpLeft)
    /\ ~ClampsRight(GetFloat(x, i), XpRight)
    /\ x_value' = GetFloat(x, i)
    /\ left_index' = 0
    /\ right_index' = ArrayLen(xp) - 1
    /\ ipc' = "search"
    /\ UNCHANGED <<x, xp, fp, left, right, i, yarray>>

\* lines 240-248: one iteration of the search loop
InterpSearchStep ==
    /\ ipc = "search"
    /\ right_index - left_index > 1
    /\ LET middle_index == MiddleIndex(left_index, right_index)
           xp_middle == GetFloat(xp, middle_index)
       IN  IF MovesRightIndex(x_value, xp_middle)
           THEN /\ right_index' = middle_index
                /\ UNCHANGED left_index
           ELSE /\ left_index' = middle_index
                /\ UNCHANGED right_index
    /\ UNCHANGED <<x, xp, fp, left, right, ipc, i, x_value, yarray>>

\* lines 249-253: the search loop is left and the formula applied
InterpInterpolate ==
    /\ ipc = "search"
    /\ ~(right_index - left_index > 1)
    /\ yarray' = Append(yarray,
                        Interpolate(x_value,
                                    GetFloat(xp, left_index),
                                    GetFloat(xp, right_index),
                                    GetFloat(fp, left_index),
                                    GetFloat(fp, right_index)))
    /\ i' = i + 1
    /\ ipc' = "loop"
    /\ UNCHANGED <<x, xp, fp, left, right, x_value, left_index, right_index>>

\* lines 230, 256: every query point is done, y is returned
InterpReturn ==
    /\ ipc = "loop"
    /\ ~(i < ArrayLen(x))
    /\ ipc' = "done"
    /\ UNCHANGED <<x, xp, fp, left, right, i, x_value, left_index,
                   right_index, yarray>>

\* no call of poly_interp is under way
InterpIdle ==
    /\ x = Row(<<>>)
    /\ xp = Row(<<>>)
    /\ fp = Row(<<>>)
    /\ left = None
    /\ right = None
    /\ ipc = "idle"
    /\ i = 0
    /\ x_value = 0
    /\ left_index = 0
    /\ right_index = 0
    /\ yarray = <<>>

InterpNext ==
    \/ InterpValidate /\ UNCHANGED notInterpVars
    \/ InterpClampLeft /\ UNCHANGED notInterpVars
    \/ InterpClampRight /\ UNCHANGED notInterpVars
    \/ InterpSearchBegin /\ UNCHANGED notInterpVars
    \/ InterpSearchStep /\ UNCHANGED notInterpVars
    \/ InterpInterpolate /\ UNCHANGED notInterpVars
    \/ InterpReturn /\ UNCHANGED notInterpVars

-----------------------------------------------------------------------------
(* One call of one function, from each of its inputs.                      *)

InitEval == EvalInit /\ InterpIdle /\ FitIdle
SpecEval == InitEval /\ [][EvalNext]_vars

InitFit == FitInit /\ EvalIdle /\ InterpIdle
SpecFit == InitFit /\ [][FitNext]_vars

InitInterp == InterpInit /\ EvalIdle /\ FitIdle
SpecInterp == InitInterp /\ [][InterpNext]_vars

-----------------------------------------------------------------------------
(* Properties of poly_polyval                                              *)

RECURSIVE Power(_, _)
\* b^e, by squaring
Power(b, e) ==
    IF e = 0 THEN 1
    ELSE IF e = 1 THEN b
    ELSE IF e % 2 = 0 THEN Power(b * b, e \div 2)
    ELSE b * Power(b * b, e \div 2)

RECURSIVE SumRange(_, _, _, _)
\* c[lo] * v^(Len(c)-lo) + ... + c[hi] * v^(Len(c)-hi), by halves
SumRange(c, v, lo, hi) ==
    IF lo > hi THEN 0
    ELSE IF lo = hi THEN c[lo] * Power(v, Len(c) - lo)
    ELSE LET mid == lo + (hi - lo) \div 2
         IN  SumRange(c, v, lo, mid) + SumRange(c, v, mid + 1, hi)

\* the polynomial with coefficients c, highest degree first, at v
DirectSum(c, v) == SumRange(c, v, 1, Len(c))

\* C3: with an empty coefficient sequence polyval fails: it returns no
\* result array and reads no element of the coefficient buffer.
C3_EmptyCoefficientsFail ==
    Len(o_p) = 0 => (epc # "done" /\ ~p_oobread)

\* C4: for a non-empty coefficient vector the result has one entry per
\* point, and entry k is the direct polynomial sum at point k.
C4_EqualsDirectSum ==
    (epc = "done" /\ Len(o_p) > 0) =>
        /\ Len(outf) = Len(o_x)
        /\ \A k \in 1 .. Len(o_x) : outf[k] = DirectSum(o_p, o_x[k])

\* What does hold of the code: the same for 1 .. U8 - 1 coefficients.
EvalDirectSumBelowU8 ==
    (epc = "done" /\ Len(o_p) > 0 /\ Len(o_p) < U8) =>
        /\ Len(outf) = Len(o_x)
        /\ \A k \in 1 .. Len(o_x) : outf[k] = DirectSum(o_p, o_x[k])
        /\ p_overrun = 0
        /\ ~p_oobread

-----------------------------------------------------------------------------
(* Properties of poly_polyfit                                              *)

\* the sample count n and the two ways validation fails
Samples == IF n_args = 2 THEN len0 ELSE len1
LengthsDiffer == n_args = 3 /\ len0 # len1
FitRejected ==
    /\ fpc = "raised"
    /\ err \in {"input vectors must be of equal length",
                "more degrees of freedom than data points"}

\* validation is over and has let the call through
FitAccepted == fpc \notin {"idle", "check"} /\ ~FitRejected

\* C2: fit fails validation when len(x) # len(y) or n < degree, and does
\* not fail it when n = degree, in both calling modes.
C2_ValidationBoundary ==
    fpc \notin {"idle", "check"} =>
        /\ (LengthsDiffer \/ Samples < degree) => FitRejected
        /\ (~LengthsDiffer /\ Samples = degree) => ~FitRejected

\* What does hold of the code: the same for lengths below U16 and degrees
\* below U8.
FitValidationWithinWidths ==
    (len0 < U16 /\ len1 < U16 /\ degree < U8) => C2_ValidationBoundary

\* the result is the solved vector reversed, d + 1 items long
Reversed(d) ==
    /\ Len(betav) = d + 1
    /\ \A k \in 0 .. d : betav[k + 1] = Beta(d - k)

\* in the swap loop: the pairs before i are exchanged, the rest untouched
PartlyReversed(d) ==
    /\ Len(betav) = d + 1
    /\ \A k \in 0 .. d :
          betav[k + 1] = IF k < pf_i \/ k > d - pf_i THEN Beta(d - k)
                         ELSE Beta(k)

\* C6: for every degree d that validation accepts the result has d + 1
\* items and is the solved vector reversed, result[k] = beta[d-k]; the swap
\* loop exchanges each pair (i, d-i) once and leaves the middle item alone.
C6_ReversedOfLengthDegreePlusOne ==
    /\ fpc = "swap" => PartlyReversed(degree)
    /\ fpc = "done" => Reversed(degree)

\* What does hold of the code: the same for the degree as the uint8_t deg
\* holds it, which is the degree given when that is below U8.
FitReversedBelowU8 ==
    /\ fpc = "swap" => PartlyReversed(deg) /\ pf_i <= SwapBound(deg)
    /\ fpc = "done" => Reversed(deg)
    /\ (FitAccepted /\ degree < U8) => deg = degree

\* it happens: a fit of even degree >= 2 and one of degree U8 - 2 return
FitReversedSeen == fpc = "done" /\ deg = 2 /\ betav = <<2, 1, 0>>
FitReversedLongSeen == fpc = "done" /\ deg = U8 - 2 /\ betav[1] = U8 - 2

\* control has left the function
FitLeft == fpc \in {"raised", "done"}

\* C7: when control leaves fit, by a validation failure, by the singular
\* matrix or by the normal return, none of x, y, XT, prod is still allocated;
\* none is ever released twice or touched when not allocated; on the
\* singular-matrix path all four are released when the error is raised.
C7_TransientBuffersReleased ==
    /\ \A b \in Buffers :
          /\ buf[b].frees <= 1
          /\ (buf[b].st = "freed") = (buf[b].frees = 1)
          /\ FitLeft => buf[b].st # "live"
          /\ (FitLeft /\ ~FitRejected) => buf[b].st = "freed"
          /\ FitRejected => buf[b].st = "none"
    /\ \A a \in acc : buf[a.buf].st = "live"

\* C7 happens: the inverter has returned false, the error is raised and the
\* four buffers are released.
C7_Witness ==
    /\ fpc = "raised"
    /\ err = "could not invert Vandermonde matrix"
    /\ \A b \in Buffers : buf[b].st = "freed" /\ buf[b].size > 0

\* C9: for n in 0 .. 65535 and degree in 0 .. 255 that pass validation the
\* loops that build XT end: the column loop runs its body once for each
\* column 0 .. n-1, the row loop once for each row 1 .. degree.
C9_DesignMatrixLoopsEnd ==
    (FitAccepted /\ len0 < U16 /\ len1 < U16 /\ degree < U8) =>
        /\ col_iters <= Samples
        /\ row_iters <= degree
        /\ fpc = "xt_row" => (pf_i = col_iters - 1 /\ pf_j = row_iters + 1)
        /\ fpc \notin {"fill", "xt", "xt_col", "xt_row"} => col_iters = Samples

\* What does hold of the code: the same for n below U8 and degree below
\* U8 - 1.
FitLoopsEndBelowU8 ==
    (Samples < U8 /\ degree < U8 - 1) => C9_DesignMatrixLoopsEnd

\* the size the claim gives each buffer
ClaimedSize(b) ==
    CASE b = "XT" -> (degree + 1) * Samples
      [] b = "prod" -> (degree + 1) * (degree + 1)
      [] b = "y" -> Samples
      [] b = "x" -> Samples

\* C10: for every n and degree that pass validation, n = degree too, every
\* index used on XT is below (degree+1)*n, on prod below (degree+1)^2, on y
\* and on x below n, whatever the inverter returns.
C10_AccessesInBounds ==
    FitAccepted => \A a \in acc : 0 <= a.lo /\ a.hi < ClaimedSize(a.buf)

\* What does hold of the code: the same for degree < n < U8.
FitInBoundsWithMoreSamples ==
    (degree < Samples /\ Samples < U8) => C10_AccessesInBounds

-----------------------------------------------------------------------------
(* Properties of poly_interp                                               *)

StrictlyIncreasing(s) == \A k \in 1 .. Len(s) - 1 : s[k] < s[k + 1]

\* validation has passed: xp and fp have the same length n >= 2
InterpRunning == ipc \in {"loop", "search", "done"}

\* C1: a query point at or below xp[0] gets the supplied left value, or
\* fp[0] when left is not supplied; any other point at or above xp[n-1] gets
\* the supplied right value, or fp[n-1] when right is not supplied; the
\* binary search is never entered for such a point.
C1_BoundaryPolicy ==
    InterpRunning =>
        LET n == Len(xp.items)
        IN  /\ \A k \in 1 .. Len(yarray) :
                  LET q == x.items[k]
                  IN  IF q <= xp.items[1]
                      THEN yarray[k] =
                             Num(IF left = None THEN fp.items[1] ELSE left[1])
                      ELSE q >= xp.items[n] =>
                             yarray[k] =
                               Num(IF right = None THEN fp.items[n]
                                   ELSE right[1])
            /\ ipc = "search" =>
                  /\ x_value = x.items[i + 1]
                  /\ ~(x_value <= xp.items[1])
                  /\ ~(x_value >= xp.items[n])

\* C1 happens: a call has returned with one point clamped to fp[0] and a
\* later one clamped to the supplied right value.
C1_Witness ==
    /\ ipc = "done"
    /\ left = None
    /\ right # None
    /\ \E k, l \in 1 .. Len(yarray) :
          /\ k < l
          /\ x.items[k] <= xp.items[1]
          /\ yarray[k] = Num(fp.items[1])
          /\ x.items[l] > xp.items[1]
          /\ x.items[l] >= xp.items[Len(xp.items)]
          /\ yarray[l] = Num(right[1])
          /\ yarray[l] # Num(fp.items[Len(fp.items)])

\* C5: with xp strictly increasing and no left/right override,
\* interp(xp, xp, fp) returns fp; an interior knot leaves the search with
\* xp[right_index] equal to it.
C5_ExactAtKnots ==
    (/\ InterpRunning
     /\ x.items = xp.items
     /\ StrictlyIncreasing(xp.items)
     /\ left = None
     /\ right = None)
    => /\ \A k \in 1 .. Len(yarray) : yarray[k] = Num(fp.items[k])
       /\ ipc = "done" => Len(yarray) = Len(fp.items)
       /\ (ipc = "search" /\ right_index - left_index <= 1) =>
             /\ xp.items[right_index + 1] = x_value
             /\ 0 < i
             /\ i < Len(xp.items) - 1

\* C5 happens: such a call over four or more knots has returned, so two
\* knots at least went through the search.
C5_Witness ==
    /\ ipc = "done"
    /\ x.items = xp.items
    /\ StrictlyIncreasing(xp.items)
    /\ left = None
    /\ right = None
    /\ Len(yarray) >= 4
    /\ \E k \in 2 .. Len(yarray) - 1 : yarray[k] # yarray[1]

\* xp strictly increasing and the current query point strictly inside it
C8_Searching ==
    /\ ipc = "search"
    /\ StrictlyIncreasing(xp.items)
    /\ xp.items[1] < x_value
    /\ x_value < xp.items[Len(xp.items)]

C8_Bracket ==
    C8_Searching =>
       /\ 0 <= left_index
       /\ left_index < right_index
       /\ right_index <= Len(xp.items) - 1
       /\ xp.items[left_index + 1] < x_value
       /\ x_value <= xp.items[right_index + 1]

C8_Step ==
    C8_Searching =>
       /\ ipc' = "search" =>
             /\ right_index - left_index > 1
             /\ right_index' - left_index' < right_index - left_index
             /\ right_index' - left_index' >= 1
       /\ ipc' # "search" =>
             /\ right_index - left_index = 1
             /\ yarray' = Append(yarray,
                   Rat(fp.items[left_index + 1]
                         * (xp.items[right_index + 1] - xp.items[left_index + 1])
                       + (x_value - xp.items[left_index + 1])
                         * (fp.items[right_index + 1] - fp.items[left_index + 1]),
                       xp.items[right_index + 1] - xp.items[left_index + 1]))

\* C8: for strictly increasing xp and a query strictly inside it, the search
\* keeps 0 <= lo < hi <= n-1 and xp[lo] < x <= xp[hi], every iteration makes
\* hi - lo strictly smaller (so the loop ends), and the loop is left with
\* hi - lo = 1, the formula being applied to that adjacent pair of knots.
C8_BinarySearchBracketing == [](C8_Bracket) /\ [][C8_Step]_vars

\* C8 happens: a search has taken two iterations and stands on an adjacent
\* pair that is neither the first nor the last.
C8_Witness ==
    /\ C8_Searching
    /\ right_index - left_index = 1
    /\ left_index > 0
    /\ right_index < Len(xp.items) - 1
    /\ x_value < xp.items[right_index + 1]

=============================================================================
